---- MODULE Spec2Model ----
(***************************************************************************)
(* Price-alert notifier of c21-commodities (src/price_alerts/alert.py):    *)
(* the subscription table, the alert handler as a sequential process, the  *)
(* mail transport and the database as an environment whose calls may       *)
(* return or raise.                                                        *)
(***************************************************************************)
EXTENDS Integers, Sequences, FiniteSets, TLC

\* ------------------------------------------------------------------ bounds
MaxPrice == 2
MaxTime == 3
MaxEntries == 2
MaxBatch == 3
MaxCalls == 2

\* INTERVAL '2 hours' of the eligibility query, in clock units of one hour.
Cooldown == 2

\* ------------------------------------------------------------ value domain
\* Python's None / SQL NULL is the empty tuple, a present value v is <<v>>.
None == <<>>
Some(v) == <<v>>
Val(o) == o[1]

\* thresholds are positive: the dashboard stores a price of 0 as NULL
Prices == 1..MaxPrice
OptPrices == {None} \cup {Some(p) : p \in Prices}

Users == {1, 2}
Commodities == {1, 2}

\* The rows of user_commodities, in the order the SELECT returns them.
SubKeys == << <<1, 1>>, <<2, 1>>, <<1, 2>>, <<2, 2>> >>
KeySet == {SubKeys[i] : i \in 1..Len(SubKeys)}

\* Thresholds of the rows: buy only, sell only, both, neither (tracking only).
Thresholds(k) ==
    CASE k = <<1, 1>> -> [buy_price |-> Some(1), sell_price |-> None]
      [] k = <<1, 2>> -> [buy_price |-> None, sell_price |-> Some(2)]
      [] k = <<2, 1>> -> [buy_price |-> Some(1), sell_price |-> Some(2)]
      [] OTHER -> [buy_price |-> None, sell_price |-> None]

\* users.email of a user: the address is identified with the user id.
EmailOf(user_id) == user_id

VARIABLES
    table,              \* user_commodities: key -> alerted_at (None or a time)
    now,                \* the database clock NOW(), in hours
    verified_emails,    \* the transport's verified-address list
    pc,                 \* position of the handler invocation
    latest_prices,      \* commodity_id -> None or <<price>> (get_latest_prices)
    user_commodities,   \* rows read by get_user_commodities
    all_actions,        \* result of check_all_alerts
    all_customer_info,  \* result of get_all_required_customer_info
    idx,                \* position of the running loop
    response,           \* the handler's return value, None while running
    dispatch,           \* send_emails: "not_started", "running", "returned", "raised"
    checked,            \* loop positions whose verified-list lookup was called
    sendCalls,          \* keys passed to send_raw_email in this invocation, in order
    sentOk,             \* keys whose send_raw_email returned in this invocation
    sendFailed,         \* keys whose send_raw_email raised in this invocation
    faults,             \* kinds of call, other than send_raw_email, that raised in this invocation
    history,            \* which of the two history variables below is recorded
    prevFailed,         \* sendFailed of the previous invocation
    lastSent,           \* key -> None or <<time of the last successful send>>
    fnArgs,             \* arguments of a function applied on its own
    fnResult,           \* its result
    second,             \* pc and locals of a second, overlapping invocation
    event,              \* what the invocation has learnt of the shape of its event
    ENV                 \* the names os.environ holds a value for

vars == <<table, now, verified_emails, pc, latest_prices, user_commodities,
          all_actions, all_customer_info, idx, response, dispatch, checked,
          sendCalls, sentOk, sendFailed, faults, history, prevFailed, lastSent,
          fnArgs, fnResult, second, event, ENV>>

invocation == <<latest_prices, user_commodities, all_actions, all_customer_info,
                idx, response, dispatch, checked, sendCalls, sentOk, sendFailed,
                faults, event>>

\* ------------------------------------------------------------ pure helpers
Row(k) ==
    [user_id |-> k[1], commodity_id |-> k[2],
     buy_price |-> Thresholds(k).buy_price,
     sell_price |-> Thresholds(k).sell_price,
     alerted_at |-> table[k]]

KeyOf(r) == <<r.user_id, r.commodity_id>>

\* the WHERE clause with the cooldown comparison made inclusive
Eligible_inclusive(r, t) ==
    /\ (r.buy_price # None \/ r.sell_price # None)
    /\ (r.alerted_at = None \/ Val(r.alerted_at) <= t - Cooldown)

\* the WHERE clause without its threshold condition
Eligible_no_thresholds(r, t) ==
    r.alerted_at = None \/ Val(r.alerted_at) < t - Cooldown

\* the WHERE clause without its alerted_at condition
Eligible_no_cooldown(r, t) ==
    r.buy_price # None \/ r.sell_price # None

\* WHERE (buy_price IS NOT NULL OR sell_price IS NOT NULL)
\*   AND (alerted_at IS NULL OR alerted_at < NOW() - INTERVAL '2 hours')
Eligible(r, t) ==
    /\ (r.buy_price # None \/ r.sell_price # None)
    /\ (r.alerted_at = None \/ Val(r.alerted_at) < t - Cooldown)

RECURSIVE RowsFrom(_)
\* the rows from position i on that the WHERE clause selects, in table order
RowsFrom(i) ==
    IF i > Len(SubKeys) THEN <<>>
    ELSE (IF Eligible(Row(SubKeys[i]), now) THEN <<Row(SubKeys[i])>> ELSE <<>>)
         \o RowsFrom(i + 1)

\* the result of get_user_commodities
EligibleRows == RowsFrom(1)

\* check_one_alert with the buy comparison made strict
check_one_alert_strict_buy(user_commodity, commodity_price) ==
    IF commodity_price = None THEN None
    ELSE IF user_commodity.buy_price # None
            /\ Val(commodity_price) < Val(user_commodity.buy_price)
         THEN <<"buy", user_commodity>>
    ELSE IF user_commodity.sell_price # None
            /\ Val(commodity_price) >= Val(user_commodity.sell_price)
         THEN <<"sell", user_commodity>>
    ELSE None

\* check_one_alert with the sell comparison made strict
check_one_alert_strict_sell(user_commodity, commodity_price) ==
    IF commodity_price = None THEN None
    ELSE IF user_commodity.buy_price # None
            /\ Val(commodity_price) <= Val(user_commodity.buy_price)
         THEN <<"buy", user_commodity>>
    ELSE IF user_commodity.sell_price # None
            /\ Val(commodity_price) > Val(user_commodity.sell_price)
         THEN <<"sell", user_commodity>>
    ELSE None

\* check_one_alert with the sell condition tested before the buy condition
check_one_alert_sell_first(user_commodity, commodity_price) ==
    IF commodity_price = None THEN None
    ELSE IF user_commodity.sell_price # None
            /\ Val(commodity_price) >= Val(user_commodity.sell_price)
         THEN <<"sell", user_commodity>>
    ELSE IF user_commodity.buy_price # None
            /\ Val(commodity_price) <= Val(user_commodity.buy_price)
         THEN <<"buy", user_commodity>>
    ELSE None

\* check_one_alert without its first test: commodity_price['price'] of None
\* raises TypeError
check_one_alert_no_guard(user_commodity, commodity_price) ==
    IF commodity_price = None
    THEN (IF user_commodity.buy_price # None \/ user_commodity.sell_price # None
          THEN <<"TypeError">> ELSE None)
    ELSE IF user_commodity.buy_price # None
            /\ Val(commodity_price) <= Val(user_commodity.buy_price)
         THEN <<"buy", user_commodity>>
    ELSE IF user_commodity.sell_price # None
            /\ Val(commodity_price) >= Val(user_commodity.sell_price)
         THEN <<"sell", user_commodity>>
    ELSE None

check_one_alert(user_commodity, commodity_price) ==
    IF commodity_price = None THEN None
    ELSE IF user_commodity.buy_price # None
            /\ Val(commodity_price) <= Val(user_commodity.buy_price)
         THEN <<"buy", user_commodity>>
    ELSE IF user_commodity.sell_price # None
            /\ Val(commodity_price) >= Val(user_commodity.sell_price)
         THEN <<"sell", user_commodity>>
    ELSE None

RECURSIVE check_all_alerts_stop_at_miss(_, _, _)
\* check_all_alerts leaving the loop at the first subscription without alert
check_all_alerts_stop_at_miss(ucs, prices, i) ==
    IF i > Len(ucs) THEN <<>>
    ELSE LET action == check_one_alert(ucs[i], prices[ucs[i].commodity_id])
         IN IF action # None
            THEN <<action>> \o check_all_alerts_stop_at_miss(ucs, prices, i + 1)
            ELSE <<>>

RECURSIVE check_all_alerts_live(_, _, _)
\* check_all_alerts testing each subscription against the table as it is now
check_all_alerts_live(ucs, prices, i) ==
    IF i > Len(ucs) THEN <<>>
    ELSE LET action == check_one_alert(ucs[i], prices[ucs[i].commodity_id])
         IN (IF action # None /\ table[KeyOf(ucs[i])] = None
             THEN <<action>> ELSE <<>>)
            \o check_all_alerts_live(ucs, prices, i + 1)

RECURSIVE check_all_alerts(_, _, _)
check_all_alerts(ucs, prices, i) ==
    IF i > Len(ucs) THEN <<>>
    ELSE LET action == check_one_alert(ucs[i], prices[ucs[i].commodity_id])
         IN (IF action # None THEN <<action>> ELSE <<>>)
            \o check_all_alerts(ucs, prices, i + 1)

\* CustomerInfo with the two thresholds exchanged in target_price
CustomerInfo_other_threshold(action, prices) ==
    LET alert_type == action[1]
        uc == action[2]
    IN [alert_type |-> alert_type,
        email |-> EmailOf(uc.user_id),
        current_price |-> Val(prices[uc.commodity_id]),
        target_price |-> IF alert_type = "buy" /\ uc.sell_price # None
                         THEN Val(uc.sell_price)
                         ELSE IF alert_type = "sell" /\ uc.buy_price # None
                         THEN Val(uc.buy_price)
                         ELSE IF alert_type = "buy" THEN Val(uc.buy_price)
                         ELSE Val(uc.sell_price),
        user_id |-> uc.user_id,
        commodity_id |-> uc.commodity_id]

\* the dict built by get_required_customer_info when the join returns a row
CustomerInfo(action, prices) ==
    LET alert_type == action[1]
        uc == action[2]
    IN [alert_type |-> alert_type,
        email |-> EmailOf(uc.user_id),
        current_price |-> Val(prices[uc.commodity_id]),
        target_price |-> IF alert_type = "buy" THEN Val(uc.buy_price)
                         ELSE Val(uc.sell_price),
        user_id |-> uc.user_id,
        commodity_id |-> uc.commodity_id]

\* what the join of get_required_customer_info does for one alert: it returns
\* a row, returns no row (ValueError), or the query raises DatabaseError
LookupOutcomes == {"row", "no_row", "db_error"}

RECURSIVE get_all_required_customer_info_abort(_, _, _, _)
\* get_all_required_customer_info leaving its loop at the first failed lookup
get_all_required_customer_info_abort(actions, prices, outcomes, i) ==
    IF i > Len(actions) THEN <<>>
    ELSE IF outcomes[i] = "row"
         THEN <<CustomerInfo(actions[i], prices)>>
                 \o get_all_required_customer_info_abort(actions, prices, outcomes, i + 1)
         ELSE <<>>

RECURSIVE get_all_required_customer_info(_, _, _, _)
\* the loop over the alerts: append the info, or log and continue
get_all_required_customer_info(actions, prices, outcomes, i) ==
    IF i > Len(actions) THEN <<>>
    ELSE (IF outcomes[i] = "row"
          THEN <<CustomerInfo(actions[i], prices)>> ELSE <<>>)
            \o get_all_required_customer_info(actions, prices, outcomes, i + 1)

\* the event bodies: lists of at most MaxEntries {commodity_id, price} entries
Entries == [commodity_id : Commodities, price : Prices]
Bodies == UNION {[1..n -> Entries] : n \in 0..MaxEntries}

RECURSIVE get_latest_prices(_, _)
\* the dict comprehension over event["body"]: a later entry of a commodity
\* replaces an earlier one; a commodity without entry has no key (None)
get_latest_prices(body, n) ==
    IF n = 0 THEN [c \in Commodities |-> None]
    ELSE [get_latest_prices(body, n - 1)
            EXCEPT ![body[n].commodity_id] = Some(body[n].price)]

\* update_alerted_at with the commodity dropped from the WHERE clause
update_alerted_at_user_wide(tbl, info, t) ==
    [k \in KeySet |-> IF k[1] = info.user_id THEN Some(t) ELSE tbl[k]]

\* the price maps handler can compute from an event
PriceMaps == {get_latest_prices(body, Len(body)) : body \in Bodies}

\* UPDATE user_commodities SET alerted_at = NOW()
\*   WHERE user_id = %s AND commodity_id = %s
update_alerted_at(tbl, info, t) ==
    [k \in KeySet |->
        IF k = <<info.user_id, info.commodity_id>> THEN Some(t) ELSE tbl[k]]

Ok(text, count) ==
    [statusCode |-> 200, kind |-> "message", text |-> text, count |-> count]
Err(text) ==
    [statusCode |-> 500, kind |-> "error", text |-> text, count |-> None]

\* the shape of the event: handler has not looked at it yet, it is a dict
\* with a "body" list of {commodity_id, price} entries, or it lacks a key
Unread == [kind |-> "unread", commodity |-> None]
WellFormed == [kind |-> "well_formed", commodity |-> None]
\* events without "body", with an entry without "commodity_id", and with the
\* entry of one commodity without "price"
MalformedEvents ==
    {[kind |-> "no_body", commodity |-> None],
     [kind |-> "no_commodity_id", commodity |-> None]}
        \cup {[kind |-> "no_price", commodity |-> Some(c)] : c \in Commodities}

\* -------------------------------------------------------------------- Init
IdleInvocation ==
    /\ latest_prices = [c \in Commodities |-> None]
    /\ user_commodities = <<>>
    /\ all_actions = <<>>
    /\ all_customer_info = <<>>
    /\ idx = 1
    /\ response = None
    /\ dispatch = "not_started"
    /\ checked = {}
    /\ sendCalls = <<>>
    /\ sentOk = {}
    /\ sendFailed = {}
    /\ faults = {}
    /\ event = Unread

\* pc and locals of an invocation that has not started
IdleLocals ==
    [pc |-> "idle",
     latest_prices |-> [c \in Commodities |-> None],
     user_commodities |-> <<>>,
     all_actions |-> <<>>,
     all_customer_info |-> <<>>,
     idx |-> 1,
     response |-> None,
     dispatch |-> "not_started",
     checked |-> {},
     sendCalls |-> <<>>,
     sentOk |-> {},
     sendFailed |-> {},
     faults |-> {},
     event |-> Unread]

\* the table after the dashboard created the subscriptions, nothing alerted yet
\* the settings get_conn and send_emails read from the environment
DbSettings == {"DB_NAME", "DB_USER", "DB_PASSWORD", "DB_HOST", "DB_PORT"}
RequiredEnv == DbSettings \cup {"SENDER_EMAIL"}
\* connect gets a value for each of its settings (ENV.get gives None for a
\* missing one and connect then raises OperationalError)
DbConfigured == DbSettings \subseteq ENV

\* the environments: every value set, or one of them missing
EnvChoices == {RequiredEnv} \cup {RequiredEnv \ {name} : name \in RequiredEnv}

InitStoreIn(h, envs) ==
    /\ history = h
    /\ ENV \in envs
    /\ table = [k \in KeySet |-> None]
    /\ now = 0
    /\ IdleInvocation
    /\ prevFailed = {}
    /\ lastSent = [k \in KeySet |-> None]
    /\ second = IdleLocals

\* the table after the dashboard created the subscriptions, every value of
\* the environment set
InitStore(h) == InitStoreIn(h, {RequiredEnv})

\* the transport's list holds the address of user 1, or of every user
VerifiedLists == {{EmailOf(1)}, {EmailOf(u) : u \in Users}}

InitWith(h, lists) ==
    /\ InitStore(h)
    /\ verified_emails \in lists
    /\ pc = "idle"
    /\ fnArgs = None
    /\ fnResult = None

\* ----------------------------------------------------------------- handler
\* handler is invoked with an event
Invoke ==
    /\ pc = "idle"
    /\ pc' = "read"
    /\ UNCHANGED <<table, now, verified_emails, invocation, prevFailed, lastSent,
                   history, fnArgs, fnResult, second, ENV>>

Finish(resp) ==
    /\ response' = resp
    /\ pc' = "done"

\* get_user_commodities logging the DatabaseError and returning no rows
ReadRaise_swallowed ==
    /\ pc = "read"
    /\ faults' = faults \cup {"read"}
    /\ Finish(Ok("No alerts to process", None))
    /\ UNCHANGED <<table, now, verified_emails, latest_prices, user_commodities,
                   all_actions, all_customer_info, idx, dispatch, checked,
                   sendCalls, sentOk, sendFailed, prevFailed, lastSent,
                   history, fnArgs, fnResult, second, event, ENV>>

\* get_user_commodities raises DatabaseError: handler returns the 500 response
ReadRaise ==
    /\ pc = "read"
    /\ faults' = faults \cup {"read"}
    /\ Finish(Err("Database error occurred"))
    /\ UNCHANGED <<table, now, verified_emails, latest_prices, user_commodities,
                   all_actions, all_customer_info, idx, dispatch, checked,
                   sendCalls, sentOk, sendFailed, prevFailed, lastSent,
                   history, fnArgs, fnResult, second, event, ENV>>

\* get_user_commodities returns; get_latest_prices(event); check_all_alerts
ReadOk ==
    /\ DbConfigured
    /\ pc = "read"
    /\ \E prices \in PriceMaps :
        LET rows == EligibleRows
            actions == check_all_alerts(rows, prices, 1)
        IN /\ user_commodities' = rows
           /\ IF rows = <<>>
              THEN /\ Finish(Ok("No alerts to process", None))
                   /\ UNCHANGED <<latest_prices, all_actions>>
              ELSE /\ latest_prices' = prices
                   /\ all_actions' = actions
                   /\ IF actions = <<>>
                      THEN Finish(Ok("No alerts triggered", None))
                      ELSE pc' = "info" /\ UNCHANGED response
    /\ UNCHANGED <<table, now, verified_emails, all_customer_info, idx, dispatch,
                   checked, sendCalls, sentOk, sendFailed, faults, prevFailed,
                   lastSent, history, fnArgs, fnResult, second, ENV>>
    /\ event' = WellFormed

\* get_user_commodities returns and the event lacks a key. With no row the
\* handler returns before it reads the event. event["body"] and
\* commodity_price['commodity_id'] raise KeyError in get_latest_prices.
\* An entry without "price" is stored in latest_prices as it is, and
\* commodity_price['price'] raises KeyError in check_one_alert for a row of
\* that commodity (every row read has a threshold); with no such row the entry
\* is never subscripted and the handler goes on as with no defect.
ReadMalformed ==
    /\ DbConfigured
    /\ pc = "read"
    /\ \E ev \in MalformedEvents, prices \in PriceMaps :
        LET rows == EligibleRows
            actions == check_all_alerts(rows, prices, 1)
        IN /\ user_commodities' = rows
           /\ event' = ev
           /\ IF rows = <<>>
              THEN /\ Finish(Ok("No alerts to process", None))
                   /\ UNCHANGED <<latest_prices, all_actions, faults>>
              ELSE IF ev.kind \in {"no_body", "no_commodity_id"}
              THEN /\ faults' = faults \cup {"event"}
                   /\ Finish(Err("Internal error occurred"))
                   /\ UNCHANGED <<latest_prices, all_actions>>
              ELSE /\ prices[Val(ev.commodity)] = None
                   /\ latest_prices' = prices
                   /\ IF \E i \in 1..Len(rows) : rows[i].commodity_id = Val(ev.commodity)
                      THEN /\ faults' = faults \cup {"event"}
                           /\ Finish(Err("Internal error occurred"))
                           /\ UNCHANGED all_actions
                      ELSE /\ all_actions' = actions
                           /\ UNCHANGED faults
                           /\ IF actions = <<>>
                              THEN Finish(Ok("No alerts triggered", None))
                              ELSE pc' = "info" /\ UNCHANGED response
    /\ UNCHANGED <<table, now, verified_emails, all_customer_info, idx, dispatch,
                   checked, sendCalls, sentOk, sendFailed, prevFailed,
                   lastSent, history, fnArgs, fnResult, second, ENV>>

\* AfterInfo without the test of an empty all_customer_info
AfterInfo_no_short_circuit(infos) ==
    IF idx < Len(all_actions)
    THEN /\ idx' = idx + 1
         /\ UNCHANGED <<pc, response, dispatch>>
    ELSE /\ idx' = 1
         /\ pc' = "verify"
         /\ dispatch' = "running"
         /\ UNCHANGED response

\* one iteration of get_all_required_customer_info, and what follows the loop
AfterInfo(infos) ==
    IF idx < Len(all_actions)
    THEN /\ idx' = idx + 1
         /\ UNCHANGED <<pc, response, dispatch>>
    ELSE /\ idx' = 1
         /\ IF infos = <<>>
            THEN /\ Finish(Ok("No valid customer info for alerts", None))
                 /\ UNCHANGED dispatch
            ELSE /\ pc' = "verify"
                 /\ dispatch' = "running"
                 /\ UNCHANGED response

InfoRow ==
    /\ DbConfigured
    /\ pc = "info"
    /\ all_customer_info' =
          Append(all_customer_info, CustomerInfo(all_actions[idx], latest_prices))
    /\ AfterInfo(all_customer_info')
    /\ UNCHANGED <<table, now, verified_emails, latest_prices, user_commodities,
                   all_actions, checked, sendCalls, sentOk, sendFailed, faults,
                   prevFailed, lastSent, history, fnArgs, fnResult, second, event, ENV>>

\* fetchone() returns None (ValueError) or the query raises DatabaseError
InfoSkip ==
    /\ pc = "info"
    /\ faults' = faults \cup {"info"}
    /\ AfterInfo(all_customer_info)
    /\ UNCHANGED <<table, now, verified_emails, latest_prices, user_commodities,
                   all_actions, all_customer_info, checked, sendCalls, sentOk,
                   sendFailed, prevFailed, lastSent, history, fnArgs, fnResult, second, event, ENV>>

\* ------------------------------------------------------------- send_emails
info == all_customer_info[idx]
cur == <<info.user_id, info.commodity_id>>

\* NextRecipient with the number of emails sent as the count of the response
NextRecipient_count_sent ==
    IF idx < Len(all_customer_info)
    THEN /\ idx' = idx + 1
         /\ pc' = "verify"
         /\ UNCHANGED <<response, dispatch>>
    ELSE /\ idx' = idx
         /\ dispatch' = "returned"
         /\ Finish(Ok("Processed alerts", Some(Cardinality(sentOk))))

\* the for loop of send_emails moves to its next entry, or ends and the
\* handler returns its success response
NextRecipient ==
    IF idx < Len(all_customer_info)
    THEN /\ idx' = idx + 1
         /\ pc' = "verify"
         /\ UNCHANGED <<response, dispatch>>
    ELSE /\ idx' = idx
         /\ dispatch' = "returned"
         /\ Finish(Ok("Processed alerts", Some(Len(all_customer_info))))

\* list_verified_email_addresses inside the try raises
VerifyRaise ==
    /\ pc = "verify"
    /\ checked' = checked \cup {idx}
    /\ faults' = faults \cup {"lookup"}
    /\ pc' = "recheck"
    /\ UNCHANGED <<table, now, verified_emails, latest_prices, user_commodities,
                   all_actions, all_customer_info, idx, response, dispatch,
                   sendCalls, sentOk, sendFailed, prevFailed, lastSent,
                   history, fnArgs, fnResult, second, event, ENV>>

\* VerifyOk without the membership test: every recipient goes on to the send
VerifyOk_no_skip ==
    /\ pc = "verify"
    /\ checked' = checked \cup {idx}
    /\ pc' = "send"
    /\ UNCHANGED <<table, now, verified_emails, latest_prices, user_commodities,
                   all_actions, all_customer_info, idx, response, dispatch,
                   sendCalls, sentOk, sendFailed, faults, prevFailed, lastSent,
                   history, fnArgs, fnResult, second, event, ENV>>

\* it returns: an address not in the list is skipped with continue
VerifyOk ==
    /\ pc = "verify"
    /\ checked' = checked \cup {idx}
    /\ IF info.email \notin verified_emails
       THEN NextRecipient
       ELSE pc' = "send" /\ UNCHANGED <<idx, response, dispatch>>
    /\ UNCHANGED <<table, now, verified_emails, latest_prices, user_commodities,
                   all_actions, all_customer_info, sendCalls, sentOk, sendFailed,
                   faults, prevFailed, lastSent, history, fnArgs, fnResult, second, event, ENV>>

\* building the MIME message raises
BuildRaise ==
    /\ pc = "send"
    /\ faults' = faults \cup {"build"}
    /\ pc' = "recheck"
    /\ UNCHANGED <<table, now, verified_emails, latest_prices, user_commodities,
                   all_actions, all_customer_info, idx, response, dispatch, checked,
                   sendCalls, sentOk, sendFailed, prevFailed, lastSent,
                   history, fnArgs, fnResult, second, event, ENV>>

\* SendRaise with the timestamp update reached on the failure path as well
SendRaise_then_update ==
    /\ pc = "send"
    /\ sendCalls' = Append(sendCalls, cur)
    /\ sendFailed' = sendFailed \cup {cur}
    /\ pc' = "update"
    /\ UNCHANGED <<table, now, verified_emails, latest_prices, user_commodities,
                   all_actions, all_customer_info, idx, response, dispatch, checked,
                   sentOk, faults, prevFailed, lastSent, history, fnArgs, fnResult, second, event, ENV>>

\* SendRaise with the send tried again after a failure
SendRaise_retry ==
    /\ pc = "send"
    /\ Len(sendCalls) < Len(all_customer_info) + 1
    /\ sendCalls' = Append(sendCalls, cur)
    /\ sendFailed' = sendFailed \cup {cur}
    /\ pc' = "send"
    /\ UNCHANGED <<table, now, verified_emails, latest_prices, user_commodities,
                   all_actions, all_customer_info, idx, response, dispatch, checked,
                   sentOk, faults, prevFailed, lastSent, history, fnArgs, fnResult, second, event, ENV>>

\* send_raw_email raises
SendRaise ==
    /\ pc = "send"
    /\ sendCalls' = Append(sendCalls, cur)
    /\ sendFailed' = sendFailed \cup {cur}
    /\ pc' = "recheck"
    /\ UNCHANGED <<table, now, verified_emails, latest_prices, user_commodities,
                   all_actions, all_customer_info, idx, response, dispatch, checked,
                   sentOk, faults, prevFailed, lastSent, history, fnArgs, fnResult, second, event, ENV>>

\* send_raw_email returns
SendOk ==
    /\ "SENDER_EMAIL" \in ENV
    /\ pc = "send"
    /\ sendCalls' = Append(sendCalls, cur)
    /\ sentOk' = sentOk \cup {cur}
    /\ lastSent' = IF history = "lastSent"
                   THEN [lastSent EXCEPT ![cur] = Some(now)] ELSE lastSent
    /\ pc' = "update"
    /\ UNCHANGED <<table, now, verified_emails, latest_prices, user_commodities,
                   all_actions, all_customer_info, idx, response, dispatch, checked,
                   sendFailed, faults, prevFailed, history, fnArgs, fnResult, second, event, ENV>>

\* update_alerted_at(info) commits
UpdateOk ==
    /\ DbConfigured
    /\ pc = "update"
    /\ table' = update_alerted_at(table, info, now)
    /\ pc' = "recheck"
    /\ UNCHANGED <<now, verified_emails, latest_prices, user_commodities,
                   all_actions, all_customer_info, idx, response, dispatch, checked,
                   sendCalls, sentOk, sendFailed, faults, prevFailed, lastSent,
                   history, fnArgs, fnResult, second, event, ENV>>

\* update_alerted_at(info) raises DatabaseError, caught and logged
UpdateRaise ==
    /\ pc = "update"
    /\ faults' = faults \cup {"update"}
    /\ pc' = "recheck"
    /\ UNCHANGED <<table, now, verified_emails, latest_prices, user_commodities,
                   all_actions, all_customer_info, idx, response, dispatch, checked,
                   sendCalls, sentOk, sendFailed, prevFailed, lastSent,
                   history, fnArgs, fnResult, second, event, ENV>>

\* the second list_verified_email_addresses, after the try statement, returns
RecheckOk ==
    /\ pc = "recheck"
    /\ NextRecipient
    /\ UNCHANGED <<table, now, verified_emails, latest_prices, user_commodities,
                   all_actions, all_customer_info, checked, sendCalls, sentOk,
                   sendFailed, faults, prevFailed, lastSent, history, fnArgs, fnResult, second, event, ENV>>

\* it raises: nothing in send_emails catches it, handler's except Exception does
RecheckRaise ==
    /\ pc = "recheck"
    /\ faults' = faults \cup {"lookup"}
    /\ dispatch' = "raised"
    /\ Finish(Err("Internal error occurred"))
    /\ UNCHANGED <<table, now, verified_emails, latest_prices, user_commodities,
                   all_actions, all_customer_info, idx, checked, sendCalls, sentOk,
                   sendFailed, prevFailed, lastSent, history, fnArgs, fnResult, second, event, ENV>>

\* the invocation has returned; the scheduler may start the next one.
\* (After the send_emails call at alert.py:323 the file holds a second
\* "def handler" header, 324-326, and after the except clauses a second call
\* and return, 337-341; the success return modelled is the one at 328-329.)
Return ==
    /\ pc = "done"
    /\ pc' = "idle"
    /\ prevFailed' = IF history = "prevFailed" THEN sendFailed ELSE {}
    /\ latest_prices' = [c \in Commodities |-> None]
    /\ user_commodities' = <<>>
    /\ all_actions' = <<>>
    /\ all_customer_info' = <<>>
    /\ idx' = 1
    /\ response' = None
    /\ dispatch' = "not_started"
    /\ checked' = {}
    /\ sendCalls' = <<>>
    /\ sentOk' = {}
    /\ sendFailed' = {}
    /\ faults' = {}
    /\ event' = Unread
    /\ UNCHANGED <<table, now, verified_emails, lastSent, history, fnArgs, fnResult,
                   second, ENV>>

\* an hour passes between two invocations (an invocation ends within the hour)
Tick ==
    /\ pc = "idle"
    /\ now < MaxTime
    /\ now' = now + 1
    /\ UNCHANGED <<table, verified_emails, pc, invocation, prevFailed, lastSent,
                   history, fnArgs, fnResult, second, ENV>>

Next ==
    \/ Invoke
    \/ ReadRaise
    \/ ReadOk
    \/ ReadMalformed
    \/ InfoRow
    \/ InfoSkip
    \/ VerifyRaise
    \/ VerifyOk
    \/ BuildRaise
    \/ SendRaise
    \/ SendOk
    \/ UpdateOk
    \/ UpdateRaise
    \/ RecheckOk
    \/ RecheckRaise
    \/ Return
    \/ Tick

Init == InitWith("none", VerifiedLists)

Spec == Init /\ [][Next]_vars

\* the same handler, with the time of every successful send kept; user 1, who
\* holds two subscriptions, is the verified recipient
InitCooldown == InitWith("lastSent", {{EmailOf(1)}})
SpecCooldown == InitCooldown /\ [][Next]_vars

\* the same handler, with the failed sends of the previous invocation kept
InitRetry == InitWith("prevFailed", VerifiedLists)
SpecRetry == InitRetry /\ [][Next]_vars

\* ------------------------------------------- check_one_alert on its own
UserCommodityInputs ==
    [user_id : Users, commodity_id : Commodities,
     buy_price : OptPrices, sell_price : OptPrices, alerted_at : {None}]

InitCheckOne ==
    /\ InitStore("none")
    /\ verified_emails = {}
    /\ pc = "check_one_alert"
    /\ fnArgs \in [uc : UserCommodityInputs, cp : {None} \cup {Some(p) : p \in Prices}]
    /\ fnResult = None

CallCheckOne ==
    /\ pc = "check_one_alert"
    /\ fnResult' = check_one_alert(fnArgs.uc, fnArgs.cp)
    /\ pc' = "returned"
    /\ UNCHANGED <<table, now, verified_emails, invocation, history, prevFailed,
                   lastSent, fnArgs, second, ENV>>

NextCheckOne == CallCheckOne

SpecCheckOne == InitCheckOne /\ [][NextCheckOne]_vars

BuyOnly == fnArgs.uc.buy_price # None /\ fnArgs.uc.sell_price = None
SellOnly == fnArgs.uc.buy_price = None /\ fnArgs.uc.sell_price # None
BothSet == fnArgs.uc.buy_price # None /\ fnArgs.uc.sell_price # None
Called == pc = "returned" /\ fnArgs.cp # None

\* C1: with only buy_price set and a price entry present, check_one_alert
\* returns ('buy', subscription) exactly when price <= buy_price (equality
\* included) and returns None for every price > buy_price.
C1_BuyOnlyIff ==
    (Called /\ BuyOnly) =>
        /\ (Val(fnArgs.cp) <= Val(fnArgs.uc.buy_price))
              <=> (fnResult = <<"buy", fnArgs.uc>>)
        /\ (Val(fnArgs.cp) > Val(fnArgs.uc.buy_price)) => fnResult = None

C1_Witness ==
    /\ Called /\ BuyOnly
    /\ Val(fnArgs.cp) = Val(fnArgs.uc.buy_price)
    /\ fnResult = <<"buy", fnArgs.uc>>

\* C2: with only sell_price set and a price entry present, check_one_alert
\* returns ('sell', subscription) exactly when price >= sell_price (equality
\* included) and returns None for every price < sell_price.
C2_SellOnlyIff ==
    (Called /\ SellOnly) =>
        /\ (Val(fnArgs.cp) >= Val(fnArgs.uc.sell_price))
              <=> (fnResult = <<"sell", fnArgs.uc>>)
        /\ (Val(fnArgs.cp) < Val(fnArgs.uc.sell_price)) => fnResult = None

C2_Witness ==
    /\ Called /\ SellOnly
    /\ Val(fnArgs.cp) = Val(fnArgs.uc.sell_price)
    /\ fnResult = <<"sell", fnArgs.uc>>

\* C3: with both thresholds set, check_one_alert returns at most one event per
\* price entry; when price <= buy_price and price >= sell_price both hold the
\* event is the buy event, and a sell event is returned only when the buy
\* condition fails and price >= sell_price.
C3_BuyBeforeSell ==
    (Called /\ BothSet) =>
        LET buys == Val(fnArgs.cp) <= Val(fnArgs.uc.buy_price)
            sells == Val(fnArgs.cp) >= Val(fnArgs.uc.sell_price)
        IN /\ fnResult \in {None, <<"buy", fnArgs.uc>>, <<"sell", fnArgs.uc>>}
           /\ (buys /\ sells) => fnResult = <<"buy", fnArgs.uc>>
           /\ (fnResult = <<"sell", fnArgs.uc>>) <=> (~buys /\ sells)

C3_Witness ==
    /\ Called /\ BothSet
    /\ Val(fnArgs.cp) <= Val(fnArgs.uc.buy_price)
    /\ Val(fnArgs.cp) >= Val(fnArgs.uc.sell_price)
    /\ fnResult = <<"buy", fnArgs.uc>>

\* ------------------------------------------------ send_emails: the batch
InfoKey(i) == <<all_customer_info[i].user_id, all_customer_info[i].commodity_id>>
Batch == 1..Len(all_customer_info)
BatchKeys == {InfoKey(i) : i \in Batch}
Pos(k) == CHOOSE i \in Batch : InfoKey(i) = k
Count(seq, k) == Cardinality({i \in 1..Len(seq) : seq[i] = k})
Range_sendCalls == {sendCalls[i] : i \in 1..Len(sendCalls)}

\* alerted_at of key k as get_user_commodities read it in this invocation
Snapshot(k) ==
    LET i == CHOOSE j \in 1..Len(user_commodities) : KeyOf(user_commodities[j]) = k
    IN user_commodities[i].alerted_at

Dispatched == pc = "done" /\ dispatch # "not_started"
AllVerified == \A i \in Batch : all_customer_info[i].email \in verified_emails

\* C4: send_emails processes every entry of the batch whatever failed for an
\* earlier entry: when it ends every entry has had its verification lookup,
\* and no exception has left send_emails.
C4_EveryEntryProcessed ==
    Dispatched =>
        /\ dispatch = "returned"
        /\ checked = Batch
        /\ response.statusCode = 200

\* C5: in a batch of verified recipients in which only send_raw_email raises
\* (for some recipients), send is called once for every recipient in batch
\* order, alerted_at is set for exactly the recipients whose send returned and
\* is left as read for those whose send raised.
C5_UpdatedIffSent ==
    (Dispatched /\ AllVerified /\ faults \cap {"lookup", "build", "update"} = {}) =>
        /\ dispatch = "returned"
        /\ sendCalls = [i \in Batch |-> InfoKey(i)]
        /\ sentOk \cup sendFailed = BatchKeys
        /\ \A k \in sentOk : table[k] = Some(now)
        /\ \A k \in sendFailed : table[k] = Snapshot(k)

C5_Witness ==
    /\ Dispatched /\ AllVerified /\ faults = {}
    /\ Len(all_customer_info) = 3
    /\ sendFailed = {InfoKey(2)}
    /\ sentOk = {InfoKey(1), InfoKey(3)}
    /\ table[InfoKey(1)] = Some(now) /\ table[InfoKey(3)] = Some(now)
    /\ table[InfoKey(2)] = None

\* C6: alerted_at changes only in the step that follows a successful send of
\* the same subscription in this invocation: the step is the update of the
\* current recipient, whose send has returned, no other row changes, and the
\* row has not been written before in this invocation.
C6_WriteOnlyAfterSend ==
    [][table' # table =>
          /\ pc = "update"
          /\ cur \in sentOk
          /\ Count(sendCalls, cur) = 1
          /\ table[cur] = Snapshot(cur)
          /\ \A k \in KeySet \ {cur} : table'[k] = table[k]]_vars

C6_Witness ==
    /\ pc = "recheck"
    /\ cur \in sentOk
    /\ table[cur] = Some(now)
    /\ Snapshot(cur) # Some(now)

\* rows read in this invocation and not notified in it
ReadNotSent ==
    {KeyOf(user_commodities[i]) : i \in 1..Len(user_commodities)} \ sentOk

\* C7 as claimed: a subscription that get_user_commodities returns, or that is
\* about to be notified, had no successful send in the last 2 hours.
C7_NoRealertWithinCooldown ==
    \A k \in ReadNotSent :
        lastSent[k] # None => now - Val(lastSent[k]) > Cooldown

\* C7 amended: a subscription whose last successful send had its alerted_at
\* update committed is not returned by get_user_commodities, and not notified
\* again, until more than 2 hours after that alert.
C7_NoRealertAfterCommittedAlert ==
    \A k \in ReadNotSent :
        (lastSent[k] # None /\ table[k] = lastSent[k]) =>
            now - Val(lastSent[k]) > Cooldown

C7_Witness ==
    \E k \in ReadNotSent :
        /\ lastSent[k] # None
        /\ table[k] = lastSent[k]
        /\ pc = "send" /\ cur = k

ReadReturned == pc \notin {"idle", "read"} /\ "read" \notin faults

\* C8: a failed send is not repeated in the invocation and leaves alerted_at
\* as read; in the next invocation get_user_commodities returns the same
\* subscription, and when its threshold holds for the new price and nothing
\* else fails the send is attempted again.
C8_FailedSendRetriedNextRun ==
    /\ \A k \in KeySet : Count(sendCalls, k) <= 1
    /\ \A k \in sendFailed : table[k] = Snapshot(k)
    /\ ReadReturned => \A k \in prevFailed : k \in ReadNotSent \cup sentOk
    /\ (pc = "done" /\ ReadReturned /\ faults = {}) =>
          \A k \in prevFailed :
              check_one_alert(Row(k), latest_prices[k[2]]) # None
                  => Count(sendCalls, k) = 1

C8_Witness ==
    /\ pc = "done" /\ ReadReturned /\ faults = {}
    /\ \E k \in prevFailed : Count(sendCalls, k) = 1 /\ k \in sentOk

\* C9: a recipient whose address is not in the verified list is never passed
\* to send_raw_email and its alerted_at stays as read; every send is preceded
\* by the lookup of its entry; and the step in which the lookup returns for
\* such a recipient goes straight to the next entry, or ends send_emails
\* normally, without an error.
C9_UnverifiedSkipped ==
    /\ [](\A i \in Batch :
            /\ InfoKey(i) \in Range_sendCalls => i \in checked
            /\ all_customer_info[i].email \notin verified_emails =>
                  /\ InfoKey(i) \notin Range_sendCalls
                  /\ table[InfoKey(i)] = Snapshot(InfoKey(i)))
    /\ [][(pc = "verify" /\ info.email \notin verified_emails /\ pc' # "recheck") =>
              /\ faults' = faults
              /\ \/ pc' = "verify" /\ idx' = idx + 1
                 \/ pc' = "done" /\ dispatch' = "returned"
                       /\ response'.statusCode = 200]_vars

C9_Witness ==
    /\ pc = "verify"
    /\ idx > 1
    /\ idx - 1 \in checked
    /\ all_customer_info[idx - 1].email \notin verified_emails
    /\ "lookup" \notin faults
    /\ sendCalls # <<>>

\* C10: when the send of a recipient returned and the alerted_at update then
\* failed, the message is not sent again, the update is not tried again, and
\* send_emails goes on to the remaining recipients: the next entry is looked
\* up and no exception leaves send_emails.
C10_UpdateFailureIsolated ==
    Dispatched =>
        \A k \in sentOk :
            table[k] = Snapshot(k) =>
                /\ Count(sendCalls, k) = 1
                /\ Pos(k) < Len(all_customer_info) => Pos(k) + 1 \in checked
                /\ Pos(k) = Len(all_customer_info) => dispatch = "returned"

\* ------------------------------------------------ two overlapping invocations
\* pc and locals of the running invocation
Locals ==
    [pc |-> pc,
     latest_prices |-> latest_prices,
     user_commodities |-> user_commodities,
     all_actions |-> all_actions,
     all_customer_info |-> all_customer_info,
     idx |-> idx,
     response |-> response,
     dispatch |-> dispatch,
     checked |-> checked,
     sendCalls |-> sendCalls,
     sentOk |-> sentOk,
     sendFailed |-> sendFailed,
     faults |-> faults,
     event |-> event]

\* the other invocation of handler runs on: each invocation keeps its own
\* locals, the table and the verified list are shared
Switch ==
    /\ second.pc # "done"
    /\ second' = Locals
    /\ pc' = second.pc
    /\ latest_prices' = second.latest_prices
    /\ user_commodities' = second.user_commodities
    /\ all_actions' = second.all_actions
    /\ all_customer_info' = second.all_customer_info
    /\ idx' = second.idx
    /\ response' = second.response
    /\ dispatch' = second.dispatch
    /\ checked' = second.checked
    /\ sendCalls' = second.sendCalls
    /\ sentOk' = second.sentOk
    /\ sendFailed' = second.sendFailed
    /\ faults' = second.faults
    /\ event' = second.event
    /\ UNCHANGED <<table, now, verified_emails, history, prevFailed, lastSent,
                   fnArgs, fnResult, ENV>>

NextOverlap ==
    \/ Invoke
    \/ ReadRaise
    \/ ReadOk
    \/ InfoRow
    \/ InfoSkip
    \/ VerifyRaise
    \/ VerifyOk
    \/ BuildRaise
    \/ SendRaise
    \/ SendOk
    \/ UpdateOk
    \/ UpdateRaise
    \/ RecheckOk
    \/ RecheckRaise
    \/ Switch

\* two invocations of handler within one cooldown window, user 1 verified
InitOverlap == InitWith("none", {{EmailOf(1)}})
SpecOverlap == InitOverlap /\ [][NextOverlap]_vars

\* alerted_at of key k in the rows ucs that a get_user_commodities call returned
SnapshotIn(ucs, k) ==
    LET i == CHOOSE j \in 1..Len(ucs) : KeyOf(ucs[j]) = k
    IN ucs[i].alerted_at

\* C11: nothing but the order of read and write keeps two overlapping
\* invocations apart: when both have sent a notification for one subscription,
\* both had read the same, still eligible, alerted_at of it, so neither read
\* saw a write of the other.
C11_DoubleSendOnSameRead ==
    \A k \in sentOk \cap second.sentOk :
        /\ SnapshotIn(user_commodities, k) = SnapshotIn(second.user_commodities, k)
        /\ Eligible([Row(k) EXCEPT !.alerted_at = SnapshotIn(user_commodities, k)], now)

\* both invocations read the subscription before either wrote alerted_at, both
\* sent, and both updates committed, all at one clock value
C11_Witness ==
    \E k \in sentOk \cap second.sentOk :
        /\ pc = "done"
        /\ second.pc = "done"
        /\ SnapshotIn(user_commodities, k) = None
        /\ SnapshotIn(second.user_commodities, k) = None
        /\ "update" \notin faults
        /\ "update" \notin second.faults
        /\ table[k] = Some(now)

\* ------------------------------------------- check_all_alerts on its own
\* lists of at most MaxBatch subscriptions, in any order, repeats allowed
BatchInputs == UNION {[1..n -> {Row(k) : k \in KeySet}] : n \in 0..MaxBatch}

InitCheckAll ==
    /\ InitStore("none")
    /\ verified_emails = {}
    /\ pc = "check_all_alerts"
    /\ fnArgs \in [user_commodities : BatchInputs, latest_prices : PriceMaps]
    /\ fnResult = <<>>

\* one call; fnResult keeps the list each call returned
CallCheckAll ==
    /\ pc = "check_all_alerts"
    /\ fnResult' = Append(fnResult,
                          check_all_alerts(fnArgs.user_commodities,
                                           fnArgs.latest_prices, 1))
    /\ pc' = "returned"
    /\ UNCHANGED <<table, now, verified_emails, invocation, history, prevFailed,
                   lastSent, fnArgs, second, ENV>>

\* between two calls with the same arguments the table is written elsewhere
WriteElsewhere ==
    /\ pc = "returned"
    /\ Len(fnResult) = 1
    /\ \E k \in KeySet :
          table' = update_alerted_at(table, [user_id |-> k[1], commodity_id |-> k[2]], now)
    /\ pc' = "check_all_alerts"
    /\ UNCHANGED <<now, verified_emails, invocation, history, prevFailed,
                   lastSent, fnArgs, fnResult, second, ENV>>

NextCheckAll == CallCheckAll \/ WriteElsewhere

SpecCheckAll == InitCheckAll /\ [][NextCheckAll]_vars

\* the positions of the input list whose subscription alerts at its price
Hits ==
    {i \in 1..Len(fnArgs.user_commodities) :
        check_one_alert(fnArgs.user_commodities[i],
                        fnArgs.latest_prices[fnArgs.user_commodities[i].commodity_id]) # None}

\* the j-th smallest element of Hits
NthHit(j) == CHOOSE i \in Hits : Cardinality({h \in Hits : h <= i}) = j

\* C12: check_all_alerts returns one event per subscription whose
\* check_one_alert against latest_prices.get(commodity_id) is not None, that
\* event, in input order; a subscription whose commodity has no price gives
\* no event.
C12_ExactlyNonNoneInOrder ==
    pc = "returned" =>
        LET out == fnResult[Len(fnResult)]
            ucs == fnArgs.user_commodities
        IN /\ Len(out) = Cardinality(Hits)
           /\ \A j \in 1..Len(out) :
                 out[j] = check_one_alert(ucs[NthHit(j)],
                                          fnArgs.latest_prices[ucs[NthHit(j)].commodity_id])
           /\ \A i \in 1..Len(ucs) :
                 fnArgs.latest_prices[ucs[i].commodity_id] = None => i \notin Hits

\* a list of three with a subscription that does not alert between two that do,
\* and one more call with a missing price
C12_Witness ==
    /\ pc = "returned"
    /\ Len(fnArgs.user_commodities) = 3
    /\ Hits = {1, 3}
    /\ fnArgs.latest_prices[fnArgs.user_commodities[2].commodity_id] = None
    /\ Len(fnResult[1]) = 2

\* C13: check_one_alert called with no price (None) returns None for every
\* subscription, whatever thresholds it holds, and raises nothing.
C13_NoPriceGivesNone ==
    (pc = "returned" /\ fnArgs.cp = None) => fnResult = None

C13_Witness ==
    /\ pc = "returned"
    /\ fnArgs.cp = None
    /\ BothSet
    /\ fnResult = None

NoThreshold(k) ==
    Thresholds(k).buy_price = None /\ Thresholds(k).sell_price = None

\* C15: a subscription with neither buy_price nor sell_price never alerts:
\* get_user_commodities never returns it, so it is in no list of the
\* invocation, is never sent to and never gets alerted_at; and check_one_alert
\* returns None for it at every price and without price.
C15_NoThresholdNeverAlerts ==
    \A k \in KeySet :
        NoThreshold(k) =>
            /\ \A i \in 1..Len(user_commodities) : KeyOf(user_commodities[i]) # k
            /\ \A i \in 1..Len(all_actions) : KeyOf(all_actions[i][2]) # k
            /\ k \notin BatchKeys
            /\ k \notin Range_sendCalls
            /\ table[k] = None
            /\ \A cp \in {None} \cup {Some(p) : p \in Prices} :
                  check_one_alert(Row(k), cp) = None

\* a read that returned every other subscription while the commodity of the
\* subscription without thresholds had a price in the event
C15_Witness ==
    \E k \in KeySet :
        /\ NoThreshold(k)
        /\ latest_prices[k[2]] # None
        /\ Len(user_commodities) = Cardinality(KeySet) - 1
        /\ all_actions # <<>>
        /\ pc = "done"
        /\ sentOk # {}

\* the stage of handler a value of pc belongs to
Stage(p) ==
    CASE p = "idle" -> 0
      [] p = "read" -> 1
      [] p = "info" -> 2
      [] p \in {"verify", "send", "update", "recheck"} -> 3
      [] p = "done" -> 4

Returned(text) == pc = "done" /\ response = Ok(text, None)
EarlyReturn ==
    \/ Returned("No alerts to process")
    \/ Returned("No alerts triggered")
    \/ Returned("No valid customer info for alerts")

\* C16: handler runs read, matching, customer info, composing and dispatch in
\* that order, each on a non-empty result of the one before, and returns a
\* 200 status at the first empty result: nothing of a later stage exists then,
\* no recipient was looked up, nothing was sent and no alerted_at was written.
C16_StagesInOrderEarlyReturns ==
    /\ [](/\ all_actions # <<>> => user_commodities # <<>>
          /\ all_customer_info # <<>> => all_actions # <<>>
          /\ dispatch # "not_started" => (all_customer_info # <<>> /\ Stage(pc) >= 3)
          /\ Stage(pc) = 3 => dispatch = "running"
          /\ Returned("No alerts to process") =>
                (user_commodities = <<>> /\ all_actions = <<>>)
          /\ Returned("No alerts triggered") =>
                (user_commodities # <<>> /\ all_actions = <<>>)
          /\ Returned("No valid customer info for alerts") =>
                (all_actions # <<>> /\ all_customer_info = <<>>)
          /\ (pc = "done" /\ faults \cap {"read", "event"} = {}) =>
                /\ user_commodities = <<>> => Returned("No alerts to process")
                /\ (user_commodities # <<>> /\ all_actions = <<>>) =>
                      Returned("No alerts triggered")
                /\ (all_actions # <<>> /\ all_customer_info = <<>>) =>
                      Returned("No valid customer info for alerts")
          /\ EarlyReturn =>
                /\ response.statusCode = 200
                /\ dispatch = "not_started"
                /\ checked = {}
                /\ sendCalls = <<>>
                /\ sentOk = {})
    /\ [][/\ pc' # "idle" => Stage(pc') >= Stage(pc)
          /\ table' # table => (pc = "update" /\ dispatch = "running")
          /\ EarlyReturn' => table' = table]_vars

\* the third early return: alerts were triggered, every customer-info lookup
\* failed
C16_Witness ==
    /\ Returned("No valid customer info for alerts")
    /\ Len(all_actions) > 1
    /\ "info" \in faults

\* the responses of the success paths that processed nothing
EmptyResponses ==
    {Ok("No alerts to process", None), Ok("No alerts triggered", None),
     Ok("No valid customer info for alerts", None)}

\* C17: a database error in get_user_commodities reaches handler, which ends
\* the invocation with statusCode 500 and an "error" field, a response that is
\* none of the 200 "message" responses; nothing of a later stage has run.
C17_ReadErrorIsFailure ==
    "read" \in faults =>
        /\ pc = "done"
        /\ response = Err("Database error occurred")
        /\ response.statusCode = 500
        /\ response.kind = "error"
        /\ response \notin EmptyResponses
        /\ \A r \in EmptyResponses :
              r.statusCode # response.statusCode /\ r.kind # response.kind
        /\ user_commodities = <<>>
        /\ sendCalls = <<>>

\* the read failed in an invocation that follows one which sent an alert
C17_Witness ==
    /\ "read" \in faults
    /\ pc = "done"
    /\ \E k \in KeySet : table[k] # None

\* C18: an invocation whose event lacks an expected key ends in an error
\* response and in none of the 200 responses, whatever rows the table holds.
C18_MalformedEventIsError ==
    (pc = "done" /\ event \in MalformedEvents) =>
        /\ response.statusCode = 500
        /\ response.kind = "error"

\* C19: every invocation ends with statusCode 200 and a "message" or with
\* statusCode 500 and an "error", and it ends with the failure response only
\* when no email was sent in it.
C19_FailureOnlyBeforeAnySend ==
    pc = "done" =>
        /\ response.statusCode \in {200, 500}
        /\ response.statusCode = 200 => response.kind = "message"
        /\ response.statusCode = 500 => (response.kind = "error" /\ sentOk = {})

\* --------------------------- get_all_required_customer_info on its own
\* the alerts check_all_alerts returns for a list of subscriptions and a price
\* map, with the outcome of the lookup of each
InitCustomerInfo ==
    /\ InitStore("none")
    /\ verified_emails = {}
    /\ pc = "get_all_required_customer_info"
    /\ \E ucs \in BatchInputs, prices \in PriceMaps :
          LET actions == check_all_alerts(ucs, prices, 1)
          IN fnArgs \in [actions : {actions}, latest_prices : {prices},
                         outcomes : [1..Len(actions) -> LookupOutcomes]]
    /\ fnResult = <<>>

CallCustomerInfo ==
    /\ pc = "get_all_required_customer_info"
    /\ fnResult' = get_all_required_customer_info(fnArgs.actions, fnArgs.latest_prices,
                                                  fnArgs.outcomes, 1)
    /\ pc' = "returned"
    /\ UNCHANGED <<table, now, verified_emails, invocation, history, prevFailed,
                   lastSent, fnArgs, second, ENV>>

NextCustomerInfo == CallCustomerInfo

SpecCustomerInfo == InitCustomerInfo /\ [][NextCustomerInfo]_vars

\* the positions of the alerts whose lookup returned a row
Found == {i \in 1..Len(fnArgs.actions) : fnArgs.outcomes[i] = "row"}

\* the j-th smallest element of Found
NthFound(j) == CHOOSE i \in Found : Cardinality({h \in Found : h <= i}) = j

\* C20: get_all_required_customer_info goes through the whole batch whatever
\* lookup fails: the list it returns holds one customer info per alert whose
\* lookup returned a row, the info of that alert, in input order, and nothing
\* for an alert whose lookup returned no row or raised a database error.
C20_FailedLookupsDropped ==
    pc = "returned" =>
        /\ Len(fnResult) = Cardinality(Found)
        /\ \A j \in 1..Len(fnResult) :
              fnResult[j] = CustomerInfo(fnArgs.actions[NthFound(j)], fnArgs.latest_prices)

\* three alerts: the first lookup returns no row, the second raises, the third
\* returns a row and its info is the list returned
C20_Witness ==
    /\ pc = "returned"
    /\ fnArgs.outcomes = <<"no_row", "db_error", "row">>
    /\ Len(fnResult) = 1
    /\ fnResult[1].commodity_id = fnArgs.actions[3][2].commodity_id

\* ------------------------------- the database functions of alert.py, stepwise
\* fnArgs names the function and the subscription it is called for; fnResult
\* holds the connection, the cursor, the pending exception and the numbers of
\* connections opened and closed so far
DbFunctions == {"get_user_commodities", "get_required_customer_info", "update_alerted_at"}

DbCalls ==
    {[fn |-> "get_user_commodities", key |-> None]}
        \cup [fn : {"get_required_customer_info", "update_alerted_at"},
              key : {Some(k) : k \in KeySet}]

DbStart ==
    [conn |-> "none", cur |-> "none", exc |-> "none", logged |-> FALSE,
     opened |-> 0, closed |-> 0, committed |-> FALSE]

InitDb ==
    /\ InitStore("none")
    /\ verified_emails = {}
    /\ pc = "connect"
    /\ fnArgs \in DbCalls
    /\ fnResult = DbStart

DbFrame == UNCHANGED <<now, verified_emails, invocation, history, prevFailed,
                       lastSent, fnArgs, second, ENV>>

\* conn = get_conn() returns a connection
DbConnectOk ==
    /\ pc = "connect"
    /\ fnResult' = [fnResult EXCEPT !.conn = "open", !.opened = @ + 1]
    /\ pc' = "cursor"
    /\ UNCHANGED table
    /\ DbFrame

\* connect raises OperationalError: conn is still None
DbConnectRaise ==
    /\ pc = "connect"
    /\ fnResult' = [fnResult EXCEPT !.exc = "DatabaseError"]
    /\ pc' = "except"
    /\ UNCHANGED table
    /\ DbFrame

\* cur = conn.cursor()
DbCursorOk ==
    /\ pc = "cursor"
    /\ fnResult' = [fnResult EXCEPT !.cur = "open"]
    /\ pc' = "execute"
    /\ UNCHANGED table
    /\ DbFrame

\* conn.cursor() raises, before the inner try statement
DbCursorRaise ==
    /\ pc = "cursor"
    /\ fnResult' = [fnResult EXCEPT !.exc = "DatabaseError"]
    /\ pc' = "except"
    /\ UNCHANGED table
    /\ DbFrame

\* cur.execute (and the fetch) returns; update_alerted_at goes on to commit
DbExecuteOk ==
    /\ pc = "execute"
    /\ pc' = IF fnArgs.fn = "update_alerted_at" THEN "commit" ELSE "cur_close"
    /\ UNCHANGED <<table, fnResult>>
    /\ DbFrame

\* cur.execute or the fetch raises DatabaseError
DbExecuteRaise ==
    /\ pc = "execute"
    /\ fnResult' = [fnResult EXCEPT !.exc = "DatabaseError"]
    /\ pc' = "cur_close"
    /\ UNCHANGED table
    /\ DbFrame

\* fetchone() returns None: get_required_customer_info raises ValueError
DbNoRow ==
    /\ pc = "execute"
    /\ fnArgs.fn = "get_required_customer_info"
    /\ fnResult' = [fnResult EXCEPT !.exc = "ValueError"]
    /\ pc' = "cur_close"
    /\ UNCHANGED table
    /\ DbFrame

\* conn.commit() of update_alerted_at
DbCommitOk ==
    /\ pc = "commit"
    /\ table' = update_alerted_at(table,
                    [user_id |-> Val(fnArgs.key)[1], commodity_id |-> Val(fnArgs.key)[2]],
                    now)
    /\ fnResult' = [fnResult EXCEPT !.committed = TRUE]
    /\ pc' = "cur_close"
    /\ DbFrame

DbCommitRaise ==
    /\ pc = "commit"
    /\ fnResult' = [fnResult EXCEPT !.exc = "DatabaseError"]
    /\ pc' = "cur_close"
    /\ UNCHANGED table
    /\ DbFrame

\* DbCloseCursor leaving the function when an exception is pending
DbCloseCursor_leak ==
    /\ pc = "cur_close"
    /\ fnResult' = [fnResult EXCEPT !.cur = "closed"]
    /\ pc' = IF fnResult.exc # "none" THEN "exit" ELSE "conn_close"
    /\ UNCHANGED table
    /\ DbFrame

\* the inner finally: cur.close(); a pending DatabaseError then goes to the
\* except clause, anything else to the outer finally
DbCloseCursor ==
    /\ pc = "cur_close"
    /\ fnResult' = [fnResult EXCEPT !.cur = "closed"]
    /\ pc' = IF fnResult.exc = "DatabaseError" THEN "except" ELSE "conn_close"
    /\ UNCHANGED table
    /\ DbFrame

\* except (DatabaseError, OperationalError): log and raise again
DbExcept ==
    /\ pc = "except"
    /\ fnResult' = [fnResult EXCEPT !.logged = TRUE]
    /\ pc' = "conn_close"
    /\ UNCHANGED table
    /\ DbFrame

\* the outer finally: if conn is not None: conn.close(); then the function
\* returns, or the pending exception leaves it
DbCloseConn ==
    /\ pc = "conn_close"
    /\ fnResult' = IF fnResult.conn = "none" THEN fnResult
                   ELSE [fnResult EXCEPT !.conn = "closed", !.closed = @ + 1]
    /\ pc' = "exit"
    /\ UNCHANGED table
    /\ DbFrame

\* the caller calls the next database function
DbNextCall ==
    /\ pc = "exit"
    /\ \E call \in DbCalls : fnArgs' = call
    /\ fnResult' = [DbStart EXCEPT !.opened = fnResult.opened, !.closed = fnResult.closed]
    /\ fnResult.opened < MaxCalls
    /\ pc' = "connect"
    /\ UNCHANGED <<table, now, verified_emails, invocation, history, prevFailed,
                   lastSent, second, ENV>>

NextDb ==
    \/ DbConnectOk
    \/ DbConnectRaise
    \/ DbCursorOk
    \/ DbCursorRaise
    \/ DbExecuteOk
    \/ DbExecuteRaise
    \/ DbNoRow
    \/ DbCommitOk
    \/ DbCommitRaise
    \/ DbCloseCursor
    \/ DbExcept
    \/ DbCloseConn
    \/ DbNextCall

SpecDb == InitDb /\ [][NextDb]_vars

\* C21: each of the three database functions leaves no connection open when it
\* exits, by return or by exception: a connection it opened is closed, once,
\* whether the cursor call, the query, the fetch or the commit failed or a row
\* was missing; at most one connection is open at any time.
C21_ConnectionsClosed ==
    /\ fnResult.opened - fnResult.closed \in {0, 1}
    /\ fnResult.opened - fnResult.closed = 1 <=> fnResult.conn = "open"
    /\ pc = "exit" =>
          /\ fnResult.conn \in {"none", "closed"}
          /\ fnResult.opened = fnResult.closed
          /\ fnResult.cur \in {"none", "closed"}
          /\ fnResult.exc = "DatabaseError" => fnResult.logged

\* update_alerted_at left by the exception of a failed commit, after an
\* earlier call that returned
C21_Witness ==
    /\ pc = "exit"
    /\ fnArgs.fn = "update_alerted_at"
    /\ fnResult.exc = "DatabaseError"
    /\ fnResult.cur = "closed"
    /\ ~fnResult.committed
    /\ fnResult.opened = 2
    /\ fnResult.closed = 2

\* ------------------------------------- the handler with a value missing
InitConfig ==
    /\ InitStoreIn("none", EnvChoices)
    /\ verified_emails \in VerifiedLists
    /\ pc = "idle"
    /\ fnArgs = None
    /\ fnResult = None

SpecConfig == InitConfig /\ [][Next]_vars

\* C22: an invocation that lacks a database setting or SENDER_EMAIL ends with
\* the failure response and has processed nothing: no recipient was looked
\* up and no send was attempted.
C22_MissingConfigFailsFast ==
    (pc = "done" /\ ENV # RequiredEnv) =>
        /\ response.statusCode = 500
        /\ response.kind = "error"
        /\ checked = {}
        /\ sendCalls = <<>>

\* ------------------------------------------ get_generated_report_list
\* the HTML document as the values the template places: the label of the
\* badge, its background, the accent of the commodity box and the current
\* price card, the fixed background of the dashboard button, the two prices
generate_alert_email_mixed_accent(alert) ==
    [alert_label |-> IF alert.alert_type = "buy" THEN "BUY" ELSE "SELL",
     alert_color |-> IF alert.alert_type = "buy" THEN "#22c55e" ELSE "#ef4444",
     accent_color |-> IF alert.alert_type = "sell" THEN "#03c1ff" ELSE "#e6530c",
     button_color |-> "#03c1ff",
     current_price |-> alert.current_price,
     target_price |-> alert.target_price]

generate_alert_email(alert) ==
    [alert_label |-> IF alert.alert_type = "buy" THEN "BUY" ELSE "SELL",
     alert_color |-> IF alert.alert_type = "buy" THEN "#22c55e" ELSE "#ef4444",
     accent_color |-> IF alert.alert_type = "buy" THEN "#03c1ff" ELSE "#e6530c",
     button_color |-> "#03c1ff",
     current_price |-> alert.current_price,
     target_price |-> alert.target_price]

\* [generate_alert_email(info) for info in all_customer_info]
get_generated_report_list(infos) ==
    [j \in 1..Len(infos) |-> generate_alert_email(infos[j])]

\* the customer infos of the alerts of a list of subscriptions, every lookup
\* returning its row
InitReports ==
    /\ InitStore("none")
    /\ verified_emails = {}
    /\ pc = "get_generated_report_list"
    /\ \E ucs \in BatchInputs, prices \in PriceMaps :
          LET actions == check_all_alerts(ucs, prices, 1)
          IN fnArgs = [all_customer_info |->
                          get_all_required_customer_info(actions, prices,
                              [i \in 1..Len(actions) |-> "row"], 1)]
    /\ fnResult = <<>>

CallReports ==
    /\ pc = "get_generated_report_list"
    /\ fnResult' = get_generated_report_list(fnArgs.all_customer_info)
    /\ pc' = "returned"
    /\ UNCHANGED <<table, now, verified_emails, invocation, history, prevFailed,
                   lastSent, fnArgs, second, ENV>>

NextReports == CallReports

SpecReports == InitReports /\ [][NextReports]_vars

Rendering(report) == <<report.alert_label, report.alert_color, report.accent_color>>
BuyRendering == <<"BUY", "#22c55e", "#03c1ff">>
SellRendering == <<"SELL", "#ef4444", "#e6530c">>

\* C23: the label, the badge colour and the accent of a message follow from
\* alert_type alone: BUY, #22c55e and #03c1ff for a buy alert, SELL, #ef4444
\* and #e6530c for a sell alert, at every price; no message combines values
\* of the two.
C23_RenderingByAlertType ==
    pc = "returned" =>
        /\ Len(fnResult) = Len(fnArgs.all_customer_info)
        /\ \A j \in 1..Len(fnResult) :
              /\ fnArgs.all_customer_info[j].alert_type = "buy" =>
                    Rendering(fnResult[j]) = BuyRendering
              /\ fnArgs.all_customer_info[j].alert_type = "sell" =>
                    Rendering(fnResult[j]) = SellRendering
              /\ Rendering(fnResult[j]) \in {BuyRendering, SellRendering}

\* a list holding a buy alert and a sell alert has been rendered
C23_Witness ==
    /\ pc = "returned"
    /\ \E i, j \in 1..Len(fnResult) :
          /\ fnArgs.all_customer_info[i].alert_type = "buy"
          /\ fnArgs.all_customer_info[j].alert_type = "sell"
          /\ fnResult[i].alert_label = "BUY"
          /\ fnResult[j].alert_label = "SELL"

\* ------------------------------- historical_load.load_data_to_db, stepwise
\* fnArgs is the frame (a list of records); fnResult holds the connection, the
\* cursor, how often each was closed, the pending exception, the rows the
\* transaction holds and the rows committed to market_records
LoadStart ==
    [conn |-> "none", cur |-> "none", conn_closes |-> 0, cur_closes |-> 0,
     exc |-> FALSE, pending |-> <<>>, market_records |-> <<>>, committed |-> FALSE]

InitLoad ==
    /\ InitStore("none")
    /\ verified_emails = {}
    /\ pc = "load_connect"
    /\ fnArgs \in Bodies
    /\ fnResult = LoadStart

LoadFrame == UNCHANGED <<table, now, verified_emails, invocation, history,
                         prevFailed, lastSent, fnArgs, second, ENV>>

\* conn = get_conn()
LoadConnectOk ==
    /\ pc = "load_connect"
    /\ fnResult' = [fnResult EXCEPT !.conn = "open"]
    /\ pc' = "load_cursor"
    /\ LoadFrame

\* connect raises: the exception leaves load_data_to_db, nothing was opened
LoadConnectRaise ==
    /\ pc = "load_connect"
    /\ fnResult' = [fnResult EXCEPT !.exc = TRUE]
    /\ pc' = "load_exit"
    /\ LoadFrame

\* cursor = conn.cursor()
LoadCursorOk ==
    /\ pc = "load_cursor"
    /\ fnResult' = [fnResult EXCEPT !.cur = "open"]
    /\ pc' = "load_insert"
    /\ LoadFrame

\* conn.cursor() raises before the try statement is entered
LoadCursorRaise ==
    /\ pc = "load_cursor"
    /\ fnResult' = [fnResult EXCEPT !.exc = TRUE]
    /\ pc' = "load_exit"
    /\ LoadFrame

\* execute_values(cursor, query, tuples)
LoadInsertOk ==
    /\ pc = "load_insert"
    /\ fnResult' = [fnResult EXCEPT !.pending = fnArgs]
    /\ pc' = "load_commit"
    /\ LoadFrame

\* building the tuples or execute_values raises
LoadInsertRaise ==
    /\ pc = "load_insert"
    /\ fnResult' = [fnResult EXCEPT !.exc = TRUE]
    /\ pc' = "load_cur_close"
    /\ LoadFrame

\* conn.commit()
LoadCommitOk ==
    /\ pc = "load_commit"
    /\ fnResult' = [fnResult EXCEPT !.market_records = @ \o fnResult.pending,
                                    !.pending = <<>>, !.committed = TRUE]
    /\ pc' = "load_cur_close"
    /\ LoadFrame

LoadCommitRaise ==
    /\ pc = "load_commit"
    /\ fnResult' = [fnResult EXCEPT !.exc = TRUE, !.pending = <<>>]
    /\ pc' = "load_cur_close"
    /\ LoadFrame

\* finally: cursor.close()
LoadCloseCursor ==
    /\ pc = "load_cur_close"
    /\ fnResult' = [fnResult EXCEPT !.cur = "closed", !.cur_closes = @ + 1]
    /\ pc' = "load_conn_close"
    /\ LoadFrame

\* finally: conn.close(); the function returns or the exception leaves it
LoadCloseConn ==
    /\ pc = "load_conn_close"
    /\ fnResult' = [fnResult EXCEPT !.conn = "closed", !.conn_closes = @ + 1,
                                    !.pending = <<>>]
    /\ pc' = "load_exit"
    /\ LoadFrame

NextLoad ==
    \/ LoadConnectOk
    \/ LoadConnectRaise
    \/ LoadCursorOk
    \/ LoadCursorRaise
    \/ LoadInsertOk
    \/ LoadInsertRaise
    \/ LoadCommitOk
    \/ LoadCommitRaise
    \/ LoadCloseCursor
    \/ LoadCloseConn

SpecLoad == InitLoad /\ [][NextLoad]_vars

\* C24: on every exit of load_data_to_db the connection it opened and the
\* cursor it opened have each been closed exactly once; when the insert
\* raised, the exception leaves the function and nothing is committed.
C24_ClosedOnceOnEveryExit ==
    pc = "load_exit" =>
        /\ fnResult.conn # "none" => (fnResult.conn = "closed" /\ fnResult.conn_closes = 1)
        /\ fnResult.cur # "none" => (fnResult.cur = "closed" /\ fnResult.cur_closes = 1)
        /\ fnResult.exc => (~fnResult.committed /\ fnResult.market_records = <<>>)

\* --------------------------------------- extract.loop_commodities, stepwise
DEFAULT_SYMBOLS == {"BZUSD", "SIUSD", "GCUSD"}
HttpStatuses == {200, 201, 404, 500}

\* what the market-data API answers for a symbol: a status and a JSON body,
\* a list with the quote of the symbol or an empty list
Quotes(symbol) == {<<>>} \cup {<<[symbol |-> symbol, price |-> p]>> : p \in Prices}
ApiAnswers ==
    {answers \in [DEFAULT_SYMBOLS -> [status_code : HttpStatuses,
                                      json : UNION {Quotes(x) : x \in DEFAULT_SYMBOLS}]] :
        \A x \in DEFAULT_SYMBOLS : answers[x].json \in Quotes(x)}

\* get_commodity_data taking every 2xx status as success
get_commodity_data_any_2xx(resp) ==
    IF resp.status_code >= 300 THEN <<>> ELSE resp.json

\* get_commodity_data once req.get returned: an empty frame unless the status
\* is 200, else the frame of the JSON body
get_commodity_data(resp) ==
    IF resp.status_code # 200 THEN <<>> ELSE resp.json

\* fnArgs: the answers of the API; fnResult: the symbols not yet fetched, the
\* symbols fetched, and all_data
InitExtract ==
    /\ InitStore("none")
    /\ verified_emails = {}
    /\ pc = "loop_commodities"
    /\ fnArgs \in ApiAnswers
    /\ fnResult = [remaining |-> DEFAULT_SYMBOLS, fetched |-> {}, all_data |-> <<>>]

\* one iteration of the loop over the set of tracked symbols (a set has no
\* fixed iteration order): fetch, concat
FetchSymbol ==
    /\ pc = "loop_commodities"
    /\ \E symbol \in fnResult.remaining :
          fnResult' = [remaining |-> fnResult.remaining \ {symbol},
                       fetched |-> fnResult.fetched \cup {symbol},
                       all_data |-> fnResult.all_data
                                       \o get_commodity_data(fnArgs[symbol])]
    /\ UNCHANGED <<pc, table, now, verified_emails, invocation, history, prevFailed,
                   lastSent, fnArgs, second, ENV>>

\* the loop is over: return all_data
LoopReturn ==
    /\ pc = "loop_commodities"
    /\ fnResult.remaining = {}
    /\ pc' = "returned"
    /\ UNCHANGED <<table, now, verified_emails, invocation, history, prevFailed,
                   lastSent, fnArgs, fnResult, second, ENV>>

NextExtract == FetchSymbol \/ LoopReturn

SpecExtract == InitExtract /\ [][NextExtract]_vars

RecordsOf(symbol) ==
    {i \in 1..Len(fnResult.all_data) : fnResult.all_data[i].symbol = symbol}

\* C25: a symbol whose answer has a status other than 200 adds nothing and
\* stops nothing: loop_commodities fetches every tracked symbol, and all_data
\* holds the records of the symbols answered with 200, each once, and no other.
C25_Non200GivesEmptyFrame ==
    /\ \A x \in fnResult.fetched :
          /\ fnArgs[x].status_code # 200 => RecordsOf(x) = {}
          /\ fnArgs[x].status_code = 200 =>
                /\ Cardinality(RecordsOf(x)) = Len(fnArgs[x].json)
                /\ \A i \in RecordsOf(x) : fnResult.all_data[i] = fnArgs[x].json[1]
    /\ \A x \in fnResult.remaining : RecordsOf(x) = {}
    /\ pc = "returned" => fnResult.fetched = DEFAULT_SYMBOLS

\* the first symbol fetched was answered 404, a later one 200 with a quote,
\* another 201 with a body
C25_Witness ==
    /\ pc = "returned"
    /\ Len(fnResult.all_data) = 1
    /\ \E x, y, z \in DEFAULT_SYMBOLS :
          /\ fnArgs[x].status_code = 404
          /\ fnArgs[y].status_code = 200 /\ fnArgs[y].json # <<>>
          /\ fnArgs[z].status_code = 201 /\ fnArgs[z].json # <<>>

\* C26: the customer info of an alert has the alert's type, the price of the
\* alert's commodity in latest_prices as current_price, and as target_price
\* the subscription's buy_price for a buy alert and its sell_price for a sell
\* alert; so current_price <= target_price for buy, >= for sell.
C26_InfoCarriesAlert ==
    pc = "returned" =>
        \A j \in 1..Len(fnResult) :
            LET action == fnArgs.actions[NthFound(j)]
                uc == action[2]
                i == fnResult[j]
            IN /\ i.alert_type = action[1]
               /\ i.user_id = uc.user_id
               /\ i.commodity_id = uc.commodity_id
               /\ i.current_price = Val(fnArgs.latest_prices[uc.commodity_id])
               /\ i.alert_type = "buy" =>
                     (i.target_price = Val(uc.buy_price) /\ i.current_price <= i.target_price)
               /\ i.alert_type = "sell" =>
                     (i.target_price = Val(uc.sell_price) /\ i.current_price >= i.target_price)

\* the info of a buy alert of a subscription that also holds a sell_price and
\* the info of a sell alert, after an alert whose lookup failed
C26_Witness ==
    /\ pc = "returned"
    /\ \E i, j \in 1..Len(fnResult) :
          /\ fnResult[i].alert_type = "buy"
          /\ fnResult[j].alert_type = "sell"
          /\ fnArgs.actions[NthFound(i)][2].sell_price # None
          /\ NthFound(j) # j

\* C27: when send_emails returns, handler answers 200 "Processed N alerts"
\* with N the number of customer infos resolved, however many recipients were
\* skipped as unverified or failed in the build, the send or the update; an
\* invocation in which no lookup raised ends so even when every send failed.
C27_CountIsResolvedInfos ==
    /\ (pc = "done" /\ dispatch = "returned") =>
          /\ response = Ok("Processed alerts", Some(Len(all_customer_info)))
          /\ response.statusCode = 200
          /\ Val(response.count) >= Cardinality(sentOk) + Cardinality(sendFailed)
    /\ (pc = "done" /\ dispatch # "not_started" /\ "lookup" \notin faults) =>
          dispatch = "returned"

\* two infos resolved, one recipient skipped as unverified, the send to the
\* other failed: the response counts 2
C27_Witness ==
    /\ pc = "done"
    /\ dispatch = "returned"
    /\ response.count = Some(2)
    /\ sentOk = {}
    /\ Cardinality(sendFailed) = 1
    /\ ~AllVerified

\* ---------------------------------------------------------------------------
\* dashboard/pages/edit_subscriptions.py: handle_submit
\* ---------------------------------------------------------------------------

\* one entry of st.session_state.user_commodities as
\* get_commodities_with_user_subscriptions builds it: the alert flags are
\* derived from the stored prices
SessionEntry(track, buy_price, sell_price) ==
    [track |-> track, buy |-> buy_price # 0, sell |-> sell_price # 0,
     buy_price |-> buy_price, sell_price |-> sell_price]

\* a commodity without subscription row has no prices: the number inputs of
\* the page start at 0 for it
SessionStates ==
    [Commodities -> {SessionEntry(TRUE, b, s) :
                        b \in 0..MaxPrice, s \in 0..MaxPrice}
                    \cup {SessionEntry(FALSE, 0, 0)}]

\* what build_single_commodity_edit returns for one commodity: three
\* checkboxes and two number inputs with min_value 0
FormEntries ==
    [track : BOOLEAN, buy : BOOLEAN, sell : BOOLEAN,
     buy_price : 0..MaxPrice, sell_price : 0..MaxPrice]

Forms == [Commodities -> FormEntries]

\* a mutant: the price of an unticked alert box is kept
ResetUnticked_keep(data) == data

\* a price whose alert box is unticked is set to 0 in place
ResetUnticked(data) ==
    [data EXCEPT !.buy_price = IF ~data.buy /\ @ # 0 THEN 0 ELSE @,
                 !.sell_price = IF ~data.sell /\ @ # 0 THEN 0 ELSE @]

\* the update dict of one commodity: a price key only for a price that differs
UpdateOf(c, data, orig) ==
    [commodity_id |-> c,
     buy_price |-> IF data.buy_price # orig.buy_price
                   THEN Some(data.buy_price) ELSE None,
     sell_price |-> IF data.sell_price # orig.sell_price
                    THEN Some(data.sell_price) ELSE None]

\* a price of 0 is stored as NULL
NullIfZero(price) == IF price # 0 THEN Some(price) ELSE None

\* the rows create_commodity_connections inserts
create_commodity_connections(comm_data) ==
    {[op |-> "insert", commodity_id |-> item.commodity_id,
      buy_price |-> NullIfZero(item.buy_price),
      sell_price |-> NullIfZero(item.sell_price)] : item \in comm_data}

\* the rows delete_user_commodities deletes
delete_user_commodities(comm_ids) ==
    {[op |-> "delete", commodity_id |-> c, buy_price |-> None,
      sell_price |-> None] : c \in comm_ids}

\* the separate buy and sell statements of update_user_commodities
update_user_commodities(update_data) ==
    {[op |-> "update_buy", commodity_id |-> item.commodity_id,
      buy_price |-> NullIfZero(Val(item.buy_price)), sell_price |-> None] :
        item \in {u \in update_data : u.buy_price # None}}
    \cup
    {[op |-> "update_sell", commodity_id |-> item.commodity_id,
      buy_price |-> None, sell_price |-> NullIfZero(Val(item.sell_price))] :
        item \in {u \in update_data : u.sell_price # None}}

\* handle_submit over the session's user_commodities and the submitted form.
\* The three lists hold at most one element per commodity and are kept as
\* sets; new_comm is the form after the loop has reset the unticked prices.
handle_submit(orig_comm, form) ==
    LET new_comm == [c \in Commodities |-> ResetUnticked(form[c])]
        create_subscriptions ==
            {[commodity_id |-> c, buy_price |-> new_comm[c].buy_price,
              sell_price |-> new_comm[c].sell_price] :
                c \in {k \in Commodities :
                          new_comm[k].track /\ ~orig_comm[k].track}}
        delete_subscriptions ==
            {c \in Commodities : ~new_comm[c].track /\ orig_comm[c].track}
        update_subscriptions ==
            {UpdateOf(c, new_comm[c], orig_comm[c]) :
                c \in {k \in Commodities :
                          /\ new_comm[k].track /\ orig_comm[k].track
                          /\ \/ new_comm[k].buy_price # orig_comm[k].buy_price
                             \/ new_comm[k].sell_price # orig_comm[k].sell_price}}
        lists == [new_comm |-> new_comm,
                  create_subscriptions |-> create_subscriptions,
                  delete_subscriptions |-> delete_subscriptions,
                  update_subscriptions |-> update_subscriptions]
    IN IF /\ create_subscriptions = {}
          /\ delete_subscriptions = {}
          /\ update_subscriptions = {}
       THEN [lists |-> lists, message |-> "error", connections |-> 0,
             executed |-> {}, commits |-> 0,
             user_commodities |-> orig_comm,
             subscribed_commodities |->
                 {c \in Commodities : orig_comm[c].track},
             page |-> "edit_subscriptions"]
       ELSE [lists |-> lists, message |-> "success", connections |-> 1,
             executed |->
                 create_commodity_connections(create_subscriptions)
                 \cup delete_user_commodities(delete_subscriptions)
                 \cup update_user_commodities(update_subscriptions),
             commits |-> (IF create_subscriptions # {} THEN 1 ELSE 0)
                         + (IF delete_subscriptions # {} THEN 1 ELSE 0)
                         + (IF update_subscriptions # {} THEN 1 ELSE 0),
             user_commodities |-> new_comm,
             subscribed_commodities |->
                 {c \in Commodities : new_comm[c].track},
             page |-> "dashboard"]

\* the edit page is open on a session filled by fill_user_commodities
InitSubmit ==
    /\ InitStore("none")
    /\ verified_emails = {}
    /\ pc = "edit_subscriptions"
    /\ \E session \in SessionStates :
          fnArgs = [user_commodities |-> session,
                    subscribed_commodities |->
                        {c \in Commodities : session[c].track}]
    /\ fnResult = None

\* the Submit button: handle_submit on the form the widgets hold
CallSubmit ==
    /\ pc = "edit_subscriptions"
    /\ \E form \in Forms :
          fnResult' = handle_submit(fnArgs.user_commodities, form)
    /\ pc' = "submitted"
    /\ UNCHANGED <<table, now, verified_emails, invocation, history, prevFailed,
                   lastSent, fnArgs, second, ENV>>

NextSubmit == CallSubmit

SpecSubmit == InitSubmit /\ [][NextSubmit]_vars

InCreate(c) == \E x \in fnResult.lists.create_subscriptions : x.commodity_id = c
InDelete(c) == c \in fnResult.lists.delete_subscriptions
InUpdate(c) == \E x \in fnResult.lists.update_subscriptions : x.commodity_id = c

\* C28: handle_submit puts a commodity in create exactly when it is tracked
\* now and was not, in delete exactly when it was tracked and is not now, in
\* update exactly when it is tracked in both and a price differs after the
\* price of every unticked alert box was reset to 0; no commodity is in two
\* sets. With all three sets empty it reports an error, opens no connection,
\* executes and commits nothing and leaves the session state as it was.
C28_DisjointChangeSets ==
    pc = "submitted" =>
        LET orig == fnArgs.user_commodities
            new == fnResult.lists.new_comm
        IN /\ \A c \in Commodities :
                /\ InCreate(c) <=> (new[c].track /\ ~orig[c].track)
                /\ InDelete(c) <=> (~new[c].track /\ orig[c].track)
                /\ InUpdate(c) <=>
                      /\ new[c].track /\ orig[c].track
                      /\ \/ new[c].buy_price # orig[c].buy_price
                         \/ new[c].sell_price # orig[c].sell_price
                /\ ~(InCreate(c) /\ InDelete(c))
                /\ ~(InCreate(c) /\ InUpdate(c))
                /\ ~(InDelete(c) /\ InUpdate(c))
                /\ ~new[c].buy => new[c].buy_price = 0
                /\ ~new[c].sell => new[c].sell_price = 0
           /\ \A x \in fnResult.lists.create_subscriptions :
                 /\ ~new[x.commodity_id].buy => x.buy_price = 0
                 /\ ~new[x.commodity_id].sell => x.sell_price = 0
           /\ \A x \in fnResult.lists.update_subscriptions :
                 /\ x.buy_price # None \/ x.sell_price # None
                 /\ (~new[x.commodity_id].buy /\ x.buy_price # None)
                       => x.buy_price = Some(0)
                 /\ (~new[x.commodity_id].sell /\ x.sell_price # None)
                       => x.sell_price = Some(0)
           /\ (\A c \in Commodities : ~InCreate(c) /\ ~InDelete(c) /\ ~InUpdate(c))
                 => /\ fnResult.message = "error"
                    /\ fnResult.connections = 0
                    /\ fnResult.executed = {}
                    /\ fnResult.commits = 0
                    /\ fnResult.user_commodities = fnArgs.user_commodities
                    /\ fnResult.subscribed_commodities
                          = fnArgs.subscribed_commodities

\* one commodity newly tracked with its buy box unticked, the other tracked
\* before and after with its sell box now unticked: a create and an update
\* that clears the sell price
C28_Witness ==
    /\ pc = "submitted"
    /\ \E c, d \in Commodities :
          /\ InCreate(c) /\ ~fnResult.lists.new_comm[c].buy
          /\ InUpdate(d)
          /\ fnArgs.user_commodities[d].sell_price # 0
          /\ ~fnResult.lists.new_comm[d].sell
          /\ [op |-> "update_sell", commodity_id |-> d, buy_price |-> None,
              sell_price |-> None] \in fnResult.executed

\* ---------------------------------------------------------------------------
\* dashboard: the commodity slots of the sidebar
\* (helper_functions.add_commodity / remove_commodity)
\* ---------------------------------------------------------------------------

\* the largest number of subscriptions a logged-in user holds
MaxSubscribed == 3

\* the Add button is disabled from this many slots on
MaxSelectors == 10

\* the commodities the selectors offer, by id
SidebarOptions == {10, 18, 40}

\* selected_commodities maps the slot i of key "commodity_i" to the id chosen
DefaultSelected == (0 :> 10) @@ (1 :> 18) @@ (2 :> 40)

\* the session state dashboard.py sets when a key is missing, which is also
\* what the log out button restores
SessionDefaults ==
    [user |-> FALSE, subscribed |-> 3, num_commodities |-> 3,
     selected_commodities |-> DefaultSelected]

Min(a, b) == IF a <= b THEN a ELSE b

add_commodity(state) ==
    [state EXCEPT !.num_commodities = @ + 1]

\* a mutant: the entry of the removed slot stays
remove_commodity_keep_entry(state) ==
    IF state.num_commodities > 1
    THEN [state EXCEPT !.num_commodities = @ - 1]
    ELSE state

remove_commodity(state) ==
    IF state.num_commodities > 1
    THEN LET n == state.num_commodities - 1
             selected == state.selected_commodities
         IN [state EXCEPT
                !.num_commodities = n,
                !.selected_commodities =
                    IF n \in DOMAIN selected
                    THEN [i \in DOMAIN selected \ {n} |-> selected[i]]
                    ELSE selected]
    ELSE state

\* fnResult: the session state; fnArgs: the last callback run and the
\* session state it started from
InitSlots ==
    /\ InitStore("none")
    /\ verified_emails = {}
    /\ pc = "dashboard"
    /\ fnArgs = [op |-> "none", before |-> SessionDefaults]
    /\ fnResult = SessionDefaults

SlotsFrame == UNCHANGED <<table, now, verified_emails, invocation, history,
                          prevFailed, lastSent, second, ENV, pc>>

\* log_in.py: a verified password fills the subscriptions and leaves one
\* empty slot
LogIn ==
    /\ ~fnResult.user
    /\ \E n \in 0..MaxSubscribed :
          fnResult' = [user |-> TRUE, subscribed |-> n, num_commodities |-> 1,
                       selected_commodities |-> <<>>]
    /\ fnArgs' = [op |-> "log_in", before |-> fnResult]
    /\ SlotsFrame

\* logout_button
LogOut ==
    /\ fnResult.user
    /\ fnResult' = SessionDefaults
    /\ fnArgs' = [op |-> "log_out", before |-> fnResult]
    /\ SlotsFrame

\* build_sidebar draws one selector per slot; each stores the option chosen
\* under the key of its slot
RenderSidebar ==
    /\ fnResult.user
    /\ \E choice \in [0..(fnResult.num_commodities - 1) -> SidebarOptions] :
          fnResult' = [fnResult EXCEPT !.selected_commodities =
                          [i \in DOMAIN @ \cup DOMAIN choice |->
                              IF i \in DOMAIN choice THEN choice[i] ELSE @[i]]]
    /\ fnArgs' = [op |-> "build_sidebar", before |-> fnResult]
    /\ SlotsFrame

\* the Add button, enabled below min(len(subscribed_commodities), 10)
AddCommodity ==
    /\ fnResult.user
    /\ fnResult.num_commodities < Min(fnResult.subscribed, MaxSelectors)
    /\ fnResult' = add_commodity(fnResult)
    /\ fnArgs' = [op |-> "add_commodity", before |-> fnResult]
    /\ SlotsFrame

\* the Remove callback; the function guards itself
RemoveCommodity ==
    /\ fnResult.user
    /\ fnResult' = remove_commodity(fnResult)
    /\ fnArgs' = [op |-> "remove_commodity", before |-> fnResult]
    /\ SlotsFrame

NextSlots ==
    \/ LogIn
    \/ LogOut
    \/ RenderSidebar
    \/ AddCommodity
    \/ RemoveCommodity

SpecSlots == InitSlots /\ [][NextSlots]_vars

\* C29: num_commodities never drops below 1. remove_commodity at one slot
\* leaves the session state as it was; otherwise the count is one less, the
\* entry of the removed last slot is gone and every other entry is kept. No
\* selected_commodities key of a slot at or beyond num_commodities exists.
C29_AtLeastOneSlot ==
    /\ fnResult.num_commodities >= 1
    /\ \A i \in DOMAIN fnResult.selected_commodities :
          i < fnResult.num_commodities
    /\ fnArgs.op = "remove_commodity" =>
          LET before == fnArgs.before
          IN IF before.num_commodities = 1
             THEN fnResult = before
             ELSE /\ fnResult.num_commodities = before.num_commodities - 1
                  /\ DOMAIN fnResult.selected_commodities =
                        DOMAIN before.selected_commodities
                            \ {before.num_commodities - 1}
                  /\ \A i \in DOMAIN fnResult.selected_commodities :
                        fnResult.selected_commodities[i] =
                            before.selected_commodities[i]
                  /\ fnResult.user = before.user
                  /\ fnResult.subscribed = before.subscribed
    /\ fnArgs.op = "add_commodity" =>
          fnResult.num_commodities = fnArgs.before.num_commodities + 1

\* three filled slots, the last one removed
C29_Witness ==
    /\ fnArgs.op = "remove_commodity"
    /\ fnArgs.before.num_commodities = 3
    /\ DOMAIN fnArgs.before.selected_commodities = {0, 1, 2}
    /\ fnResult.num_commodities = 2
    /\ DOMAIN fnResult.selected_commodities = {0, 1}

\* ---------------------------------------------------------------------------
\* pipeline/pipeline.py: run_pipeline and the Lambda handler of the pipeline
\* ---------------------------------------------------------------------------

\* the symbol -> commodity_id rows of the commodities table
get_symbol_id_map(symbol) ==
    CASE symbol = "BZUSD" -> 10
      [] symbol = "GCUSD" -> 18
      [] symbol = "SIUSD" -> 40

\* apply_transformations, as far as the handler reads its result: the symbol
\* column is replaced by commodity_id, the price column is kept
apply_transformations(df) ==
    [i \in 1..Len(df) |->
        [commodity_id |-> get_symbol_id_map(df[i].symbol), price |-> df[i].price]]

\* clean_df[["commodity_id", "price"]].to_dict(orient="records")
to_dict_records(df) ==
    [i \in 1..Len(df) |->
        [commodity_id |-> df[i].commodity_id, price |-> df[i].price]]

\* run_pipeline returns None on an empty raw frame; handler subscripts it
EndOfEmptyRun ==
    [clean_df |-> None, steps |-> <<"extract">>, loaded |-> <<>>,
     outcome |-> [raised |-> Some("TypeError"), statusCode |-> None,
                  body |-> None]]

\* handler is invoked: run_pipeline starts with loop_commodities
InitPipeline ==
    /\ InitStore("none")
    /\ verified_emails = {}
    /\ pc = "loop_commodities"
    /\ fnArgs \in ApiAnswers
    /\ fnResult = [remaining |-> DEFAULT_SYMBOLS, fetched |-> {}, all_data |-> <<>>]

PipelineFrame == UNCHANGED <<table, now, verified_emails, invocation, history,
                            prevFailed, lastSent, fnArgs, second, ENV>>

\* raw_df.empty: run_pipeline logs a warning and returns
PipelineEmpty ==
    /\ pc = "loop_commodities"
    /\ fnResult.remaining = {}
    /\ fnResult.all_data = <<>>
    /\ fnResult' = EndOfEmptyRun
    /\ pc' = "pipeline_raised"
    /\ PipelineFrame

\* the transform step
PipelineTransform ==
    /\ pc = "loop_commodities"
    /\ fnResult.remaining = {}
    /\ fnResult.all_data # <<>>
    /\ fnResult' = [clean_df |-> Some(apply_transformations(fnResult.all_data)),
                    steps |-> <<"extract", "transform">>, loaded |-> <<>>,
                    outcome |-> [raised |-> None, statusCode |-> None,
                                 body |-> None]]
    /\ pc' = "insert_into_db"
    /\ PipelineFrame

\* the load step inserts every row and commits
PipelineLoadOk ==
    /\ pc = "insert_into_db"
    /\ DbConfigured
    /\ fnResult' = [fnResult EXCEPT !.steps = Append(@, "load"),
                                    !.loaded = Val(fnResult.clean_df)]
    /\ pc' = "pipeline_handler"
    /\ PipelineFrame

\* the connection or the insert raises: nothing in run_pipeline or handler
\* catches it
PipelineLoadRaise ==
    /\ pc = "insert_into_db"
    /\ fnResult' = [fnResult EXCEPT !.steps = Append(@, "load"),
                                    !.outcome.raised = Some("OperationalError")]
    /\ pc' = "pipeline_raised"
    /\ PipelineFrame

\* handler builds the response from clean_df
PipelineReturn ==
    /\ pc = "pipeline_handler"
    /\ fnResult' = [fnResult EXCEPT
                       !.outcome.statusCode = Some(200),
                       !.outcome.body =
                           Some(to_dict_records(Val(fnResult.clean_df)))]
    /\ pc' = "pipeline_returned"
    /\ PipelineFrame

NextPipeline ==
    \/ FetchSymbol
    \/ PipelineEmpty
    \/ PipelineTransform
    \/ PipelineLoadOk
    \/ PipelineLoadRaise
    \/ PipelineReturn

SpecPipeline == InitPipeline /\ [][NextPipeline]_vars

PipelineEnded == pc \in {"pipeline_returned", "pipeline_raised"}

\* C30: every run of the pipeline's handler whose database calls succeed
\* returns statusCode 200 with a list of {commodity_id, price} entries as
\* body, the run in which extraction yields no records included; that run
\* performs neither the transform nor the load step.
C30_HandlerAlwaysReturns200 ==
    /\ (PipelineEnded /\ fnResult.outcome.raised # Some("OperationalError")) =>
          /\ pc = "pipeline_returned"
          /\ fnResult.outcome.raised = None
          /\ fnResult.outcome.statusCode = Some(200)
          /\ fnResult.outcome.body # None
          /\ \A i \in 1..Len(Val(fnResult.outcome.body)) :
                /\ Val(fnResult.outcome.body)[i].commodity_id \in {10, 18, 40}
                /\ Val(fnResult.outcome.body)[i].price \in Prices
    /\ (PipelineEnded /\ fnResult.clean_df \in {None, Some(<<>>)}) =>
          fnResult.steps = <<"extract">>

====
